---- MODULE Spec2Model ----
(***************************************************************************)
(* laspy.file.File: the facade over the file manager (base.Writer).        *)
(* One File instance is followed from its construction on.                 *)
(***************************************************************************)
EXTENDS Integers, Sequences, FiniteSets, TLC

\* Bounds of the model.
MaxPoints == 2   \* point records in the file: 0..MaxPoints
MaxDims == 1     \* extra dimensions declared by the file's schema record
MaxRepeats == 0  \* records one generator yields again after the caller moved the cursor

VARIABLES
  inst,          \* "none": no instance; "live": __init__ returned; "failed": __init__ raised
  mode,          \* self._mode ("unset" before line 60)
  file_manager,  \* self.file_manager: "None" or "Writer"
  header,        \* self._header: "None" or "Header"
  at_end,        \* self.at_end: "unset", "False", "True"
  props,         \* names add_property has set on the class
  fm,            \* the file manager object (base.Writer)
  fileDims,      \* raw names of the extra dimensions stored in the file
  npoints,       \* point records stored in the file
  gen,           \* the generator __iter__ returned, suspended at its yield
  inWith,        \* inside a `with` block on the instance
  result         \* what the last call did: error raised, value returned, file manager calls

vars == <<inst, mode, file_manager, header, at_end, props, fm, fileDims, npoints,
          gen, inWith, result>>

----------------------------------------------------------------------------
\* Inputs

\* base.FILE_MODES, as the docstring of File.__init__ lists the modes.
FILE_MODES == {"r", "rw", "w", "w+"}

\* Mode strings a caller may pass.
ModeArgs == FILE_MODES \cup {"a", "R"}

\* str.lower() on the mode strings of the model.
Lower(m) == IF m = "R" THEN "r" ELSE m

\* Raw extra-dimension names as the file stores them, one token per byte:
\* "NUL" is the padding byte, "BAD" a byte that bytes.decode() rejects.
RawNames == { <<"A", " ", "NUL">>, <<"BAD">> }

\* Names a caller passes to define_new_dimension and set_dimension.
DefNames == { <<"b">> }

\* The named dimension setters of the facade and the file manager method each calls.
SetterMethod ==
  [ X |-> "set_x", x |-> "set_x", intensity |-> "set_intensity",
    return_num |-> "set_return_num", classification |-> "set_classification" ]

NamedSetters == DOMAIN SetterMethod

RECURSIVE SeqsUpTo(_, _)
SeqsUpTo(S, n) ==
  IF n = 0 THEN { <<>> }
  ELSE LET shorter == SeqsUpTo(S, n - 1)
       IN shorter \cup { Append(s, e) : s \in shorter, e \in S }

----------------------------------------------------------------------------
\* The file manager (base.Writer), which this facade delegates to.

FmInit == [ open |-> FALSE, closes |-> 0, cursor |-> -1, written |-> FALSE,
            dims |-> <<>> ]

\* base.Writer(filename, mode): the stream is acquired, the schema record read.
FmOpen(dims) == [ FmInit EXCEPT !.open = TRUE, !.dims = dims ]

\* file_manager.close()
FmClose(f) == [ f EXCEPT !.open = FALSE, !.closes = f.closes + 1 ]

\* file_manager.get_point(index): the record, <<>> standing for None.
get_point(n, index) == IF index \in 0..(n - 1) THEN << [index |-> index] >> ELSE <<>>

\* The cursor after file_manager.get_point(index).
FmSeek(f, n, index) == IF index \in 0..(n - 1) THEN [ f EXCEPT !.cursor = index ] ELSE f

\* file_manager.get_next_point(): the record after the cursor, None at the end.
get_next_point(f, n) == get_point(n, f.cursor + 1)

\* file_manager.set_dimension / set_points / set_<name>: point data is written.
FmSet(f) == [ f EXCEPT !.written = TRUE ]

\* file_manager.define_new_dimension: rejected once a point record was written,
\* and for a name the schema already holds.
FmDefineRejects(f, name) ==
  f.written \/ \E i \in 1..Len(f.dims) : f.dims[i] = name

FmDefine(f, name) == [ f EXCEPT !.dims = Append(f.dims, name) ]

----------------------------------------------------------------------------
\* Helpers of the facade

Res(op, name, index, err, ret, calls) ==
  [ op |-> op, name |-> name, index |-> index, err |-> err, ret |-> ret,
    fmcalls |-> calls ]

GenInit == [ state |-> "none", yielded |-> <<>>, openAtStart |-> FALSE,
             disturbed |-> FALSE, err |-> "none" ]

\* A call the caller makes on the File while the generator is suspended.
Disturb(g) == IF g.state = "suspended" THEN [ g EXCEPT !.disturbed = TRUE ] ELSE g

\* add_extra_dimensions, line 74: decode, strip NUL, blanks to underscores, lower case.
Decodes(raw) == \A i \in 1..Len(raw) : raw[i] # "BAD"

dimname(raw) ==
  LET stripped == SelectSeq(raw, LAMBDA c : c # "NUL")
  IN [ i \in 1..Len(stripped) |->
         IF stripped[i] = " " THEN "_"
         ELSE IF stripped[i] = "A" THEN "a" ELSE stripped[i] ]

\* add_extra_dimensions: add_property for each dimension in order, stopping at
\* the first name that does not decode.
RECURSIVE add_extra_dimensions(_, _, _)
add_extra_dimensions(extra_dims, i, ps) ==
  IF i > Len(extra_dims) THEN [ err |-> "none", props |-> ps ]
  ELSE IF ~Decodes(extra_dims[i]) THEN [ err |-> "UnicodeDecodeError", props |-> ps ]
  ELSE add_extra_dimensions(extra_dims, i + 1, ps \cup { dimname(extra_dims[i]) })

AssertWriteModeNever(m) == "ok"

\* assert_write_mode
assert_write_mode(m) == IF m = "r" THEN "LaspyException" ELSE "ok"

----------------------------------------------------------------------------
Init ==
  /\ inst = "none"
  /\ mode = "unset"
  /\ file_manager = "None"
  /\ header = "None"
  /\ at_end = "unset"
  /\ props = {}
  /\ fm = FmInit
  /\ fileDims \in SeqsUpTo(RawNames, MaxDims)
  /\ npoints \in 0..MaxPoints
  /\ gen = GenInit
  /\ inWith = FALSE
  /\ result = Res("none", <<>>, -1, "none", <<>>, <<>>)

\* File.__init__(filename, mode=m); env is what the file system does to the open.
Construct(m, env) ==
  /\ inst = "none"
  /\ UNCHANGED <<at_end, fileDims, npoints, gen, inWith>>
  /\ IF m \notin FILE_MODES THEN
       \* line 57 formats self._mode, which no line has set yet
       /\ inst' = "failed"
       /\ result' = Res("__init__", <<m>>, -1, "AttributeError", <<>>, <<>>)
       /\ UNCHANGED <<mode, file_manager, header, props, fm>>
     ELSE IF m = "w" THEN
       /\ inst' = "failed"
       /\ mode' = Lower(m)
       /\ result' = Res("__init__", <<m>>, -1, "NotImplementedError", <<>>, <<>>)
       /\ UNCHANGED <<file_manager, header, props, fm>>
     ELSE IF env = "open_fails" THEN
       /\ inst' = "failed"
       /\ mode' = Lower(m)
       /\ result' = Res("__init__", <<m>>, -1, "IOError", <<>>, <<"Writer">>)
       /\ UNCHANGED <<file_manager, header, props, fm>>
     ELSE IF env = "header_fails" THEN
       /\ inst' = "failed"
       /\ mode' = Lower(m)
       /\ file_manager' = "Writer"
       /\ fm' = FmOpen(fileDims)
       /\ result' = Res("__init__", <<m>>, -1, "IOError", <<>>, <<"Writer", "get_header">>)
       /\ UNCHANGED <<header, props>>
     ELSE
       LET r == add_extra_dimensions(fileDims, 1, props)
       IN /\ inst' = IF r.err = "none" THEN "live" ELSE "failed"
          /\ mode' = Lower(m)
          /\ file_manager' = "Writer"
          /\ fm' = FmOpen(fileDims)
          /\ header' = "Header"
          /\ props' = r.props
          /\ result' = Res("__init__", <<m>>, -1, r.err, <<>>, <<"Writer", "get_header">>)

\* The body of File.close, run as operation op.
CloseBody(op) ==
  IF file_manager = "None" THEN
    \* None has no attribute close
    /\ result' = Res(op, <<>>, -1, "AttributeError", <<>>, <<>>)
    /\ UNCHANGED <<file_manager, header, fm>>
  ELSE
    /\ fm' = FmClose(fm)
    /\ file_manager' = "None"
    /\ header' = "None"
    /\ result' = Res(op, <<>>, -1, "none", <<>>, <<"close">>)

\* File.close()
Close ==
  /\ inst = "live"
  /\ CloseBody("close")
  /\ gen' = Disturb(gen)
  /\ UNCHANGED <<inst, mode, at_end, props, fileDims, npoints, inWith>>

\* File.__enter__
EnterWith ==
  /\ inst = "live"
  /\ ~inWith
  /\ inWith' = TRUE
  /\ result' = Res("__enter__", <<>>, -1, "none", <<>>, <<>>)
  /\ UNCHANGED <<inst, mode, file_manager, header, at_end, props, fm, fileDims,
                 npoints, gen>>

\* File.__exit__: the block is left, normally or by an exception.
ExitWith ==
  /\ inst = "live"
  /\ inWith
  /\ inWith' = FALSE
  /\ CloseBody("__exit__")
  /\ gen' = Disturb(gen)
  /\ UNCHANGED <<inst, mode, at_end, props, fileDims, npoints>>

\* fset(self, value) and the setters of the shape
\*     self.assert_write_mode(); self.file_manager.<method>(...)
Mutate(op, name, method) ==
  /\ inst = "live"
  /\ IF assert_write_mode(mode) # "ok" THEN
       /\ result' = Res(op, name, -1, "LaspyException", <<>>, <<>>)
       /\ UNCHANGED fm
     ELSE IF file_manager = "None" THEN
       /\ result' = Res(op, name, -1, "AttributeError", <<>>, <<>>)
       /\ UNCHANGED fm
     ELSE
       /\ fm' = FmSet(fm)
       /\ result' = Res(op, name, -1, "none", <<>>, <<method>>)
  /\ UNCHANGED <<inst, mode, file_manager, header, at_end, props, fileDims, npoints,
                 gen, inWith>>

\* File.set_dimension(name, value)
SetDimension(name) == Mutate("set_dimension", name, "set_dimension")

\* File.points = new_points
SetPoints == Mutate("points", <<>>, "set_points")

\* File.X = ..., File.x = ..., File.intensity = ..., and the other named setters
SetNamed(s) == Mutate("setter", <<s>>, SetterMethod[s])

\* The fset of a property add_property generated
SetProperty(name) ==
  /\ name \in props
  /\ Mutate("fset", name, "set_dimension")

\* File.header = header
SetHeader ==
  /\ inst = "live"
  /\ IF mode # "w+" THEN
       /\ result' = Res("header", <<>>, -1, "LaspyException", <<>>, <<>>)
       /\ UNCHANGED fm
     ELSE IF file_manager = "None" THEN
       /\ result' = Res("header", <<>>, -1, "AttributeError", <<>>, <<>>)
       /\ UNCHANGED fm
     ELSE
       /\ result' = Res("header", <<>>, -1, "none", <<>>, <<"set_header">>)
       /\ UNCHANGED fm
  /\ UNCHANGED <<inst, mode, file_manager, header, at_end, props, fileDims, npoints,
                 gen, inWith>>

\* File.get_dimension(name)
GetDimension(name) ==
  /\ inst = "live"
  /\ result' = IF file_manager = "None"
               THEN Res("get_dimension", name, -1, "AttributeError", <<>>, <<>>)
               ELSE Res("get_dimension", name, -1, "none", <<>>, <<"get_dimension">>)
  /\ UNCHANGED <<inst, mode, file_manager, header, at_end, props, fm, fileDims,
                 npoints, gen, inWith>>

DefineRegistersFirst(m, fmgr, f, ps, name) ==
  IF assert_write_mode(m) # "ok" THEN
    [ err |-> "LaspyException", fm |-> f, props |-> ps \cup {name}, calls |-> <<>> ]
  ELSE IF fmgr = "None" THEN
    [ err |-> "AttributeError", fm |-> f, props |-> ps \cup {name}, calls |-> <<>> ]
  ELSE IF FmDefineRejects(f, name) THEN
    [ err |-> "LaspyException", fm |-> f, props |-> ps \cup {name},
      calls |-> <<"define_new_dimension">> ]
  ELSE
    [ err |-> "none", fm |-> FmDefine(f, name), props |-> ps \cup {name},
      calls |-> <<"define_new_dimension">> ]

\* File.define_new_dimension(name, data_type, description): the error raised, the
\* file manager and the class properties afterwards, the file manager calls made.
define_new_dimension(m, fmgr, f, ps, name) ==
  IF assert_write_mode(m) # "ok" THEN
    [ err |-> "LaspyException", fm |-> f, props |-> ps, calls |-> <<>> ]
  ELSE IF fmgr = "None" THEN
    [ err |-> "AttributeError", fm |-> f, props |-> ps, calls |-> <<>> ]
  ELSE IF FmDefineRejects(f, name) THEN
    [ err |-> "LaspyException", fm |-> f, props |-> ps,
      calls |-> <<"define_new_dimension">> ]
  ELSE
    [ err |-> "none", fm |-> FmDefine(f, name), props |-> ps \cup {name},
      calls |-> <<"define_new_dimension">> ]

DefineNewDimension(name) ==
  /\ inst = "live"
  /\ LET r == define_new_dimension(mode, file_manager, fm, props, name)
     IN /\ fm' = r.fm
        /\ props' = r.props
        /\ result' = Res("define_new_dimension", name, -1, r.err, <<>>, r.calls)
  /\ UNCHANGED <<inst, mode, file_manager, header, at_end, fileDims, npoints, gen,
                 inWith>>

\* File.read, line 152: the test that lets an index through to get_point
ReadCheck(count, index) == count >= index

\* File.read(index): error, value, file manager afterwards, calls made
read(fmgr, f, n, index) ==
  IF fmgr = "None" THEN
    [ err |-> "AttributeError", ret |-> <<>>, fm |-> f, calls |-> <<>> ]
  ELSE IF ReadCheck(n, index) THEN
    [ err |-> "none", ret |-> get_point(n, index), fm |-> FmSeek(f, n, index),
      calls |-> <<"get_pointrecordscount", "get_point">> ]
  ELSE
    [ err |-> "LaspyException", ret |-> <<>>, fm |-> f,
      calls |-> <<"get_pointrecordscount">> ]

\* File.read(index) and File[index]
Read(index) ==
  /\ inst = "live"
  /\ LET r == read(file_manager, fm, npoints, index)
     IN /\ fm' = r.fm
        /\ result' = Res("read", <<>>, index, r.err, r.ret, r.calls)
  /\ gen' = Disturb(gen)
  /\ UNCHANGED <<inst, mode, file_manager, header, at_end, props, fileDims, npoints,
                 inWith>>

\* [self.read(i) for i in range(i, stop)]: the first failing read ends the list
RECURSIVE read_range(_, _, _, _, _, _, _)
read_range(fmgr, f, n, i, stop, acc, calls) ==
  IF i >= stop THEN [ err |-> "none", ret |-> acc, fm |-> f, calls |-> calls ]
  ELSE LET r == read(fmgr, f, n, i)
       IN IF r.err # "none"
          THEN [ err |-> r.err, ret |-> <<>>, fm |-> r.fm, calls |-> calls \o r.calls ]
          ELSE read_range(fmgr, r.fm, n, i + 1, stop, acc \o r.ret, calls \o r.calls)

\* File[range(start, stop)]
GetItemRange(start, stop) ==
  /\ inst = "live"
  /\ start < stop
  /\ LET r == read_range(file_manager, fm, npoints, start, stop, <<>>, <<>>)
     IN /\ fm' = r.fm
        /\ result' = Res("getitem", <<>>, start, r.err, r.ret, r.calls)
  /\ gen' = Disturb(gen)
  /\ UNCHANGED <<inst, mode, file_manager, header, at_end, props, fileDims, npoints,
                 inWith>>

WhileCondIgnoresPoint(p, ae) == ae # "True"

\* File.__iter__, line 532: while p and not self.at_end
WhileCond(p, ae) == p # <<>> /\ ae # "True"

\* The generator ends through the else of its while loop: self.close()
IterCloses(f, g, calls) ==
  /\ fm' = FmClose(f)
  /\ file_manager' = "None"
  /\ header' = "None"
  /\ gen' = [ g EXCEPT !.state = "finished" ]
  /\ result' = Res("next", <<>>, -1, "none", <<>>, Append(calls, "close"))

\* iter(File) and the first next(): the generator body up to its first yield.
\* pep479: the interpreter turns a StopIteration raised in a generator into RuntimeError.
IterStart(pep479) ==
  /\ inst = "live"
  /\ UNCHANGED <<inst, mode, props, fileDims, npoints, inWith>>
  /\ IF mode # "r" THEN
       /\ gen' = [ GenInit EXCEPT !.state = "finished",
                                  !.openAtStart = (file_manager # "None"),
                                  !.err = IF pep479 THEN "RuntimeError" ELSE "none" ]
       /\ result' = Res("next", <<>>, -1, gen'.err, <<>>, <<>>)
       /\ UNCHANGED <<file_manager, header, at_end, fm>>
     ELSE IF file_manager = "None" THEN
       /\ at_end' = "False"
       /\ gen' = [ GenInit EXCEPT !.state = "finished", !.err = "AttributeError" ]
       /\ result' = Res("next", <<>>, -1, "AttributeError", <<>>, <<>>)
       /\ UNCHANGED <<file_manager, header, fm>>
     ELSE
       LET p == get_point(npoints, 0)
           f == FmSeek(fm, npoints, 0)
           g == [ GenInit EXCEPT !.openAtStart = TRUE ]
       IN /\ at_end' = "False"
          /\ IF WhileCond(p, "False") THEN
               /\ gen' = [ g EXCEPT !.state = "suspended", !.yielded = <<p>> ]
               /\ fm' = f
               /\ result' = Res("next", <<>>, -1, "none", p, <<"get_point">>)
               /\ UNCHANGED <<file_manager, header>>
             ELSE IterCloses(f, g, <<"get_point">>)

\* next() on the suspended generator: from the yield to the next yield or the end
IterNext ==
  /\ inst = "live"
  /\ gen.state = "suspended"
  /\ Len(gen.yielded) <= npoints + MaxRepeats
  /\ UNCHANGED <<inst, mode, props, fileDims, npoints, inWith>>
  /\ IF file_manager = "None" THEN
       /\ gen' = [ gen EXCEPT !.state = "finished", !.err = "AttributeError" ]
       /\ result' = Res("next", <<>>, -1, "AttributeError", <<>>, <<>>)
       /\ UNCHANGED <<file_manager, header, at_end, fm>>
     ELSE
       LET p == get_next_point(fm, npoints)
           f == FmSeek(fm, npoints, fm.cursor + 1)
           ae == IF p = <<>> THEN "True" ELSE at_end
       IN /\ at_end' = ae
          /\ IF WhileCond(p, ae) THEN
               /\ gen' = [ gen EXCEPT !.yielded = Append(gen.yielded, p) ]
               /\ fm' = f
               /\ result' = Res("next", <<>>, -1, "none", p, <<"get_next_point">>)
               /\ UNCHANGED <<file_manager, header>>
             ELSE IterCloses(f, gen, <<"get_next_point">>)

\* The caller leaves the loop early: the suspended generator is closed at its yield
IterAbandon ==
  /\ inst = "live"
  /\ gen.state = "suspended"
  /\ gen' = [ gen EXCEPT !.state = "abandoned" ]
  /\ result' = Res("abandon", <<>>, -1, "none", <<>>, <<>>)
  /\ UNCHANGED <<inst, mode, file_manager, header, at_end, props, fm, fileDims,
                 npoints, inWith>>

Next ==
  \/ \E m \in ModeArgs, env \in {"ok", "open_fails", "header_fails"} : Construct(m, env)
  \/ Close
  \/ EnterWith
  \/ ExitWith
  \/ \E name \in DefNames : SetDimension(name)
  \/ SetPoints
  \/ \E s \in NamedSetters : SetNamed(s)
  \/ \E name \in props : SetProperty(name)
  \/ SetHeader
  \/ \E name \in DefNames : GetDimension(name)
  \/ \E name \in DefNames : DefineNewDimension(name)
  \/ \E index \in 0..(npoints + 1) : Read(index)
  \/ \E start \in 0..(npoints + 1), stop \in 1..(npoints + 1) : GetItemRange(start, stop)
  \/ \E pep479 \in BOOLEAN : IterStart(pep479)
  \/ IterNext
  \/ IterAbandon

Spec == Init /\ [][Next]_vars

----------------------------------------------------------------------------
\* Properties

MutatingOps == {"set_dimension", "points", "setter", "fset", "define_new_dimension"}

\* The file manager method a mutating facade call is documented to reach.
ExpectedMethod(r) ==
  IF r.op = "setter" THEN SetterMethod[r.name[1]]
  ELSE IF r.op = "points" THEN "set_points"
  ELSE IF r.op = "define_new_dimension" THEN "define_new_dimension"
  ELSE "set_dimension"

\* C1: in read mode every mutating operation (set_dimension, the points setter, the
\* named setters, the setters add_property generates, define_new_dimension) raises
\* LaspyException without calling the file manager, whose state and the registered
\* properties stay as they were; in "rw" and "w+", with the file open, the same
\* operation calls its file manager method.
C1_ReadModeRejectsMutation ==
  [][ (inst = "live" /\ result'.op \in MutatingOps) =>
        /\ mode = "r" =>
             /\ result'.err = "LaspyException"
             /\ result'.fmcalls = <<>>
             /\ fm' = fm
             /\ props' = props
        /\ (mode \in {"rw", "w+"} /\ file_manager = "Writer") =>
             result'.fmcalls = << ExpectedMethod(result') >> ]_vars

\* A mutating call was refused on a File that is open in read mode.
C1_Witness ==
  /\ mode = "r"
  /\ file_manager = "Writer"
  /\ result.op \in MutatingOps
  /\ result.err = "LaspyException"

\* C2: close() on a File that close() already closed raises no error.
C2_SecondCloseIsNoOp ==
  (result.op = "close" /\ gen.state = "none" /\ file_manager = "None") =>
     result.err = "none"

\* C3: a traversal in read mode, run to its end or abandoned, with no close() by
\* the caller since it began, leaves the file manager held and open.
C3_TraversalKeepsFileOpen ==
  ( /\ mode = "r"
    /\ result.op \in {"next", "abandon"}
    /\ gen.openAtStart
    /\ ~gen.disturbed ) =>
     (file_manager = "Writer" /\ fm.open)

\* C4: read(index) with index >= the point record count raises the domain error
\* and does not call get_point.
C4_ReadRejectsIndexFromCount ==
  (result.op = "read" /\ file_manager = "Writer" /\ result.index >= npoints) =>
     /\ result.err = "LaspyException"
     /\ \A i \in 1..Len(result.fmcalls) : result.fmcalls[i] # "get_point"

\* C5: opening in any supported mode, the file system not failing, leaves a live
\* instance that holds a file manager and a header.
C5_OpenSucceedsInEveryMode ==
  ( /\ result.op = "__init__"
    /\ result.name[1] \in FILE_MODES
    /\ result.err \notin {"IOError", "UnicodeDecodeError"} ) =>
     (inst = "live" /\ file_manager = "Writer" /\ header = "Header")

\* C6: an unsupported mode string is refused with LaspyException and no file
\* manager is created.
C6_BadModeRaisesDomainError ==
  (result.op = "__init__" /\ result.name[1] \notin FILE_MODES) =>
     (result.err = "LaspyException" /\ file_manager = "None" /\ ~fm.open)

\* C7: a construction that failed holds no open stream.
C7_FailedOpenReleasesStream ==
  inst = "failed" => ~fm.open

\* C8: __exit__ raises nothing and leaves the file manager closed exactly once.
C8_ExitReleasesOnce ==
  result.op = "__exit__" =>
     /\ result.err = "none"
     /\ file_manager = "None"
     /\ ~fm.open
     /\ fm.closes = 1

\* The records read(0), ..., read(n-1) return, in order.
RecordsUpTo(n) == [ i \in 1..n |-> get_point(npoints, i - 1) ]

C10_DefineLifecycle ==
  [][ (inst = "live" /\ result'.op = "define_new_dimension") =>
        /\ (fm.written /\ mode # "r" /\ file_manager = "Writer") =>
             result'.err = "LaspyException"
        /\ result'.err # "none" => props' = props
        /\ props' # props =>
             /\ result'.err = "none"
             /\ result'.fmcalls = <<"define_new_dimension">>
             /\ fm'.dims = Append(fm.dims, result'.name)
             /\ props' = props \cup {result'.name} ]_vars

\* define_new_dimension was refused by the file manager after a write.
C10_Witness ==
  /\ result.op = "define_new_dimension"
  /\ result.err = "LaspyException"
  /\ result.fmcalls = <<"define_new_dimension">>
  /\ fm.written
  /\ mode \in {"rw", "w+"}

====
